---- MODULE Spec2Model ----
(***************************************************************************)
(* Model of source/views/pdf_viewer_dialog.py: the navigation, search,     *)
(* outline and zoom handlers of PdfViewerDialog and SearchToolBar, together *)
(* with the Qt objects they drive (QSpinBox, QPdfPageNavigator,             *)
(* QPdfSearchModel, QPdfView) as far as the handlers read or write them.    *)
(***************************************************************************)
EXTENDS Integers, Sequences, FiniteSets, TLC

VARIABLES
    docStatus,      \* what self.document.load returned: "Ready" or "Error"
    reported,       \* messages load_pdf printed
    searchModels,   \* the QPdfSearchModel objects __init__ created, in order: "bound" to a toolbar or "replaced"
    pageCount,      \* self.document.pageCount()
    spinMin,        \* page_spinbox.minimum()
    spinMax,        \* page_spinbox.maximum()
    spinValue,      \* page_spinbox.value(): the displayed current page (1-based)
    totalLabel,     \* the number shown by the total_pages label "/ n"
    navPage,        \* pdf_view.pageNavigator().currentPage() (0-based)
    zoomFactor,     \* pdf_view.zoomFactor(), a rational [num, den]
    zoomMode,       \* pdf_view.zoomMode()
    tb,             \* the two SearchToolBar instances: search_model bound?, current_result_index, parent() has _goto_page?
    searchText,     \* self.search_model.searchString()
    rows,           \* pages of the rows self.search_model holds so far (0-based, in row order)
    lastOp,         \* the handler that ran last and its argument
    asked,          \* page numbers passed to _goto_page by the last handler
    jumped,         \* internal indices passed to pageNavigator().jump by the last handler
    searched,       \* texts passed to setSearchText by the last handler
    zoomed,         \* factors passed to setZoomFactor by the last handler
    err,            \* exception that escaped the last handler ("none" if it returned)
    nextRun         \* number of consecutive _next_page calls made since the spinbox showed 1 (-1: none)

vars == <<docStatus, reported, searchModels, pageCount, spinMin, spinMax, spinValue, totalLabel, navPage, zoomFactor,
          zoomMode, tb, searchText, rows, lastOp, asked, jumped, searched, zoomed, err, nextRun>>

-----------------------------------------------------------------------------
(* Bounds *)

\* Largest document the model loads.
MaxPages == 6

\* The page counts load_pdf is tried with (0: empty or failed load).
PageCounts == {0, 1, 3, MaxPages}

\* Texts typed into a search input.
Queries == {"", "a", "b"}

\* The two toolbars __init__ creates: 1 is in the layout, 2 is self.search_toolbar.
Toolbars == {1, 2}

Min(a, b) == IF a <= b THEN a ELSE b

Max(a, b) == IF a >= b THEN a ELSE b

Last(s) == s[Len(s)]

-----------------------------------------------------------------------------
(* Rationals, standing for the float values of the zoom factor *)

RECURSIVE Gcd(_, _)
Gcd(a, b) == IF b = 0 THEN a ELSE Gcd(b, a % b)

Abs(a) == IF a < 0 THEN -a ELSE a

\* num/den in lowest terms with den > 0.
Rat(n, d) ==
    LET g == Gcd(Abs(n), Abs(d))
        s == IF d < 0 THEN -1 ELSE 1
    IN  [num |-> (s * n) \div g, den |-> (s * d) \div g]

-----------------------------------------------------------------------------
(* Zoom texts and Python's float(zoom_text.rstrip('%')) *)

\* A text is a sequence of one-character strings.
Digits == <<"0", "1", "2", "3", "4", "5", "6", "7", "8", "9">>

IsDigit(c) == \E i \in 1..Len(Digits) : Digits[i] = c

DigitVal(c) == (CHOOSE i \in 1..Len(Digits) : Digits[i] = c) - 1

\* The zoom texts the handler is tried with: items of zoom_combo and texts
\* no item holds, "Fit Width" among them. None spells inf, nan, an exponent or an underscore, the
\* only forms float() accepts beyond sign, digits and one point.
ZoomTexts ==
    { <<"1", "0", "0", "%">>, <<"1", "5", "0", "%">>, <<"a", "b", "c", "%">>,
      <<"0", "%">>, <<"-", "5", "0", "%">>, <<"1", "5", "0", "%", "%">>,
      <<" ", "+", "1", "5", "0", ".", "0", " ", "%">>, <<"1", "5", "0", "%", " ">>,
      <<"1", ".", "5", ".", "0", "%">>, <<>>,
      <<"F", "i", "t", " ", "W", "i", "d", "t", "h">> }

\* str.rstrip('%'): every trailing "%" is removed.
RECURSIVE RStripPercent(_)
RStripPercent(s) ==
    IF s # <<>> /\ Last(s) = "%" THEN RStripPercent(SubSeq(s, 1, Len(s) - 1)) ELSE s

RECURSIVE LStripSpace(_)
LStripSpace(s) == IF s # <<>> /\ Head(s) = " " THEN LStripSpace(Tail(s)) ELSE s

RECURSIVE RStripSpace(_)
RStripSpace(s) ==
    IF s # <<>> /\ Last(s) = " " THEN RStripSpace(SubSeq(s, 1, Len(s) - 1)) ELSE s

\* The value of a sequence of digits read as a decimal numeral.
RECURSIVE DigitsValue(_)
DigitsValue(s) ==
    IF s = <<>> THEN 0 ELSE 10 * DigitsValue(SubSeq(s, 1, Len(s) - 1)) + DigitVal(Last(s))

RECURSIVE Pow10(_)
Pow10(k) == IF k = 0 THEN 1 ELSE 10 * Pow10(k - 1)

AllDigits(s) == \A i \in 1..Len(s) : IsDigit(s[i])

ValueError == [ok |-> FALSE, val |-> Rat(0, 1)]

\* float(s) for s over digits, sign, point, space and letters: surrounding
\* spaces are ignored, then [sign] digits [. digits] or [sign] . digits.
ParseFloat(s) ==
    LET t    == RStripSpace(LStripSpace(s))
        neg  == t # <<>> /\ Head(t) = "-"
        body == IF t # <<>> /\ Head(t) \in {"+", "-"} THEN Tail(t) ELSE t
        dots == {i \in 1..Len(body) : body[i] = "."}
        dot  == IF dots = {} THEN Len(body) + 1 ELSE CHOOSE i \in dots : TRUE
        ip   == SubSeq(body, 1, dot - 1)
        fp   == SubSeq(body, dot + 1, Len(body))
        mag  == DigitsValue(ip \o fp)
    IN  IF /\ Cardinality(dots) <= 1
           /\ AllDigits(ip) /\ AllDigits(fp)
           /\ Len(ip) + Len(fp) >= 1
        THEN [ok |-> TRUE, val |-> Rat(IF neg THEN -mag ELSE mag, Pow10(Len(fp)))]
        ELSE ValueError

\* The division by 100.0 left out.
DivHundredForgotten(x) == x

\* x / 100.0
DivHundred(x) == Rat(x.num, x.den * 100)

\* The argument _zoom_changed computes for setZoomFactor, or ValueError.
ZoomOf(zoom_text) ==
    LET f == ParseFloat(RStripPercent(zoom_text))
    IN  IF f.ok THEN [ok |-> TRUE, val |-> DivHundred(f.val)] ELSE ValueError

\* ZoomOf, computed once for each text.
ZoomTable == [t \in ZoomTexts |-> ZoomOf(t)]

-----------------------------------------------------------------------------
(* The engine: document, search model, bookmark model *)

\* Pages (0-based) of the hits of each query, in the order the search model
\* lists them; the document's first pageCount pages are searched.
HitPages(q) ==
    CASE q = "a" -> <<0, 2, 5>>
      [] q = "b" -> <<1, 1>>
      [] OTHER   -> <<>>

InDocument(p) == p < pageCount

Hits(q) == SelectSeq(HitPages(q), InDocument)

\* QPdfSearchModel.rowCount()
RowCount(rws) == Len(rws)

\* QPdfSearchModel.resultAtIndex(i).page(): an invalid link has page -1.
ResultPage(rws, i) == IF 0 <= i /\ i < Len(rws) THEN rws[i + 1] ELSE -1

\* What rowCount() can see right after setSearchText(text): the rows left
\* alone when the text is the one already set, else either nothing yet (the
\* search runs later, page by page) or every hit (a search that completes
\* inside the call).
RowsAfterSetSearchText(text) ==
    IF text = searchText THEN {rows} ELSE {<<>>, Hits(text)}

\* The rows after the search of one more page with hits has completed.
RowsAfterNextPage ==
    LET full == Hits(searchText)
        p    == full[Len(rows) + 1]
        k    == Cardinality({i \in 1..Len(full) : full[i] <= p})
    IN  SubSeq(full, 1, k)

\* What QPdfBookmarkModel.data(index, PageNumberRole) can return: None (the
\* empty set) or a 0-based page, -1 for a bookmark without destination.
TocPages == {{}} \cup {{p} : p \in -1..MaxPages}

-----------------------------------------------------------------------------
(* PdfViewerDialog: page navigation *)

\* _goto_page passing the 1-based page number to jump as it is.
goto_page_unconverted(page_num) ==
    IF 1 <= page_num /\ page_num <= pageCount THEN <<page_num>> ELSE <<>>

\* _goto_page with the lower bound of its range test off by one.
goto_page_from_zero(page_num) ==
    IF 0 <= page_num /\ page_num <= pageCount THEN <<page_num - 1>> ELSE <<>>

\* _goto_page(page_num): the indices passed to pageNavigator().jump.
goto_page(page_num) ==
    IF 1 <= page_num /\ page_num <= pageCount THEN <<page_num - 1>> ELSE <<>>

\* QSpinBox.setValue(v): the value is bounded by the range.
Bounded(v) == Max(spinMin, Min(spinMax, v))

\* valueChanged is connected to _goto_page and is emitted only on a change:
\* the calls of _goto_page that page_spinbox.setValue(v) causes.
ValueChanged(v) == IF Bounded(v) # spinValue THEN <<Bounded(v)>> ELSE <<>>

\* The value _previous_page passes to page_spinbox.setValue, if any.
previous_page == IF spinValue > 1 THEN {spinValue - 1} ELSE {}

\* _next_page wrapping to the first page at the end of the document.
next_page_wrapping == IF spinValue < pageCount THEN {spinValue + 1} ELSE {1}

\* The value _next_page passes to page_spinbox.setValue, if any.
next_page == IF spinValue < pageCount THEN {spinValue + 1} ELSE {}

\* _on_toc_clicked passing the bookmark's 0-based page on as it is.
on_toc_clicked_unconverted(page) ==
    IF page = {} THEN <<>> ELSE <<CHOOSE p \in page : TRUE>>

\* The calls of _goto_page that _on_toc_clicked makes for the page the
\* bookmark model returns.
on_toc_clicked(page) == IF page = {} THEN <<>> ELSE <<(CHOOSE p \in page : TRUE) + 1>>

NoOp(name) == [op |-> name, tb |-> 0, arg |-> {}, zin |-> <<>>, q |-> "", sup |-> FALSE]

\* The run of _next_page calls starts over whenever another handler sets the spinbox.
RunAfterSet(newSpin) == IF newSpin = 1 THEN 0 ELSE -1

docVars == <<docStatus, reported, searchModels, pageCount, spinMin, spinMax, totalLabel>>

searchVars == <<tb, searchText, rows>>

zoomVars == <<zoomFactor, zoomMode>>

\* The handler calls _goto_page once for each page number of calls (at most
\* one), and the engine's viewport follows the last jump.
Goto(calls) ==
    LET jumps == IF calls = <<>> THEN <<>> ELSE goto_page(calls[1])
    IN  /\ asked' = calls
        /\ jumped' = jumps
        /\ navPage' = IF jumps = <<>> THEN navPage ELSE Last(jumps)

\* page_spinbox.setValue(v) for each v of vs (at most one), with the
\* valueChanged slot.
SetValue(vs) ==
    /\ spinValue' = IF vs = {} THEN spinValue ELSE Bounded(CHOOSE v \in vs : TRUE)
    /\ Goto(IF vs = {} THEN <<>> ELSE ValueChanged(CHOOSE v \in vs : TRUE))

\* The user edits the spinbox: any value of its range.
SpinEdit(v) ==
    /\ v \in spinMin..spinMax
    /\ v # spinValue
    /\ SetValue({v})
    /\ lastOp' = [NoOp("spin") EXCEPT !.arg = {v}]
    /\ nextRun' = RunAfterSet(spinValue')
    /\ searched' = <<>> /\ zoomed' = <<>> /\ err' = "none"
    /\ UNCHANGED <<docVars, searchVars, zoomVars>>

PreviousClicked ==
    /\ SetValue(previous_page)
    /\ lastOp' = NoOp("previous")
    /\ nextRun' = RunAfterSet(spinValue')
    /\ searched' = <<>> /\ zoomed' = <<>> /\ err' = "none"
    /\ UNCHANGED <<docVars, searchVars, zoomVars>>

NextClicked ==
    /\ SetValue(next_page)
    /\ lastOp' = NoOp("next")
    /\ nextRun' = IF nextRun >= 0 THEN Min(nextRun + 1, pageCount + 1) ELSE -1
    /\ searched' = <<>> /\ zoomed' = <<>> /\ err' = "none"
    /\ UNCHANGED <<docVars, searchVars, zoomVars>>

TocClicked(page) ==
    /\ Goto(on_toc_clicked(page))
    /\ lastOp' = [NoOp("toc") EXCEPT !.arg = page]
    /\ searched' = <<>> /\ zoomed' = <<>> /\ err' = "none"
    /\ UNCHANGED <<docVars, spinValue, nextRun, searchVars, zoomVars>>

-----------------------------------------------------------------------------
(* PdfViewerDialog: zoom *)

\* _zoom_changed sending the view back to page 1 after setZoomFactor.
zoom_changed_goto_first(zoom_text) == <<1>>

\* The calls of _goto_page that _zoom_changed makes: none, its only call is
\* setZoomFactor, which scrolls to no page.
zoom_changed_goto(zoom_text) == <<>>

\* The user picks zoom_text in zoom_combo: _zoom_changed(zoom_text).
ZoomChanged(zoom_text) ==
    LET z == ZoomTable[zoom_text]
    IN  /\ zoomFactor' = IF z.ok THEN z.val ELSE zoomFactor
        /\ zoomed' = IF z.ok THEN <<z.val>> ELSE <<>>
        /\ err' = IF z.ok THEN "none" ELSE "ValueError"
        /\ lastOp' = [NoOp("zoom") EXCEPT !.zin = zoom_text]
        /\ Goto(zoom_changed_goto(zoom_text))
        /\ searched' = <<>>
        /\ UNCHANGED <<docVars, spinValue, nextRun, zoomMode, searchVars>>

-----------------------------------------------------------------------------
(* SearchToolBar *)

\* current_result_index after _search_forward, for count > 0.
search_forward(index, count) == (index + 1) % count

\* current_result_index after _search_backward, for count > 0.
search_backward(index, count) == (index - 1) % count

\* _on_search_text_changed setting the index to 0 without asking rowCount().
IndexAfterQueryAlwaysFirst(count) == 0

\* current_result_index after _on_search_text_changed.
IndexAfterQuery(count) == IF count > 0 THEN 0 ELSE -1

\* _go_to_current_result of toolbar t with current_result_index = index: the
\* calls of parent()._goto_page it makes.
go_to_current_result(t, index, rws) ==
    IF index >= 0 /\ tb[t].parentGoto
    THEN <<ResultPage(rws, index) + 1>>
    ELSE <<>>

\* _search_forward and _search_backward without the test of self.search_model.
MovesWithoutModel(t, count) == count # 0

\* Whether _search_forward and _search_backward of toolbar t get past their
\* early returns: a search model is bound and it has rows.
Moves(t, count) == tb[t].model /\ count # 0

\* A click on next_result (forward) or prev_result of toolbar t.
SearchStep(t, forward) ==
    LET count == RowCount(rows)
        moves == Moves(t, count)
        index == IF ~moves THEN tb[t].index
                 ELSE IF forward THEN search_forward(tb[t].index, count)
                 ELSE search_backward(tb[t].index, count)
    IN  /\ tb' = [tb EXCEPT ![t].index = index]
        /\ Goto(IF moves THEN go_to_current_result(t, index, rows) ELSE <<>>)
        /\ lastOp' = [NoOp(IF forward THEN "forward" ELSE "backward") EXCEPT !.tb = t]
        /\ searched' = <<>> /\ zoomed' = <<>> /\ err' = "none"
        /\ UNCHANGED <<docVars, spinValue, nextRun, searchText, rows, zoomVars>>

SearchForward(t) == SearchStep(t, TRUE)

SearchBackward(t) == SearchStep(t, FALSE)

\* _on_search_text_changed leaving a search that is still running alone.
SubmittedTextUnlessBusy(t, text) ==
    IF tb[t].model /\ Len(rows) = Len(Hits(searchText)) THEN text ELSE searchText

\* The text self.search_model searches for once _on_search_text_changed of
\* toolbar t has run with text.
SubmittedText(t, text) == IF tb[t].model THEN text ELSE searchText

\* Whether the search that a new text replaces still had rows to deliver.
Supersedes(t, text) ==
    tb[t].model /\ text # searchText /\ Len(rows) < Len(Hits(searchText))

\* The user changes the text of toolbar t's search_input to text. Only the
\* toolbar with the search model feeds searchText, so its input holds
\* searchText; the other toolbar's handler does not read its input.
SearchTextChanged(t, text) ==
    /\ tb[t].model => text # searchText
    /\ \E rws \in (IF tb[t].model THEN RowsAfterSetSearchText(SubmittedText(t, text))
                   ELSE {rows}) :
         LET index == IF tb[t].model THEN IndexAfterQuery(RowCount(rws)) ELSE tb[t].index
         IN  /\ rows' = rws
             /\ searchText' = SubmittedText(t, text)
             /\ searched' = IF tb[t].model THEN <<text>> ELSE <<>>
             /\ tb' = [tb EXCEPT ![t].index = index]
             /\ Goto(IF tb[t].model THEN go_to_current_result(t, index, rws) ELSE <<>>)
    /\ lastOp' = [NoOp("query") EXCEPT !.tb = t, !.q = text, !.sup = Supersedes(t, text)]
    /\ zoomed' = <<>> /\ err' = "none"
    /\ UNCHANGED <<docVars, spinValue, nextRun, zoomVars>>

\* The search model finishes the search of one more page and inserts its rows.
EngineDeliver ==
    /\ Len(rows) < Len(Hits(searchText))
    /\ rows' = RowsAfterNextPage
    /\ lastOp' = [NoOp("deliver") EXCEPT !.sup = lastOp.sup]
    /\ asked' = <<>> /\ jumped' = <<>> /\ searched' = <<>> /\ zoomed' = <<>> /\ err' = "none"
    /\ UNCHANGED <<docVars, spinValue, nextRun, navPage, tb, searchText, zoomVars>>

-----------------------------------------------------------------------------
(* Construction: PdfViewerDialog.__init__ with load_pdf *)

\* A new QSpinBox has the range 0..99 and the value 0; the label starts as "/ 0".
SpinDefaultMin == 0

SpinDefaultMax == 99

SpinDefaultValue == 0

LabelDefault == 0

\* The outcomes of self.document.load: a document of n pages, or an error
\* that leaves the document without pages.
LoadOutcomes(counts) ==
    {[status |-> "Ready", pages |-> n] : n \in counts}
        \cup {[status |-> "Error", pages |-> 0]}

\* Whether a statement of load_pdf's try block raises. QPdfDocument.load
\* returns its error instead of raising, and pageCount, setRange, setText
\* and setValue raise nothing, so the except branch is never entered.
LoadRaises(status) == FALSE

\* QSpinBox.setValue(v) under the range <<lo, hi>>.
BoundedIn(range, v) == Max(range[1], Min(range[2], v))

\* load_pdf with setRange(0, total_pages) in place of setRange(1, total_pages).
RangeAfterLoadFromZero(total_pages) == <<0, Max(0, total_pages)>>

\* page_spinbox.setRange(1, total_pages): a maximum below the minimum is
\* raised to the minimum.
RangeAfterLoad(total_pages) == <<1, Max(1, total_pages)>>

\* load_pdf: what it leaves in the toolbar, what it prints, and the calls of
\* _goto_page made by the valueChanged signals of setRange and setValue(1).
load_pdf(status, total_pages) ==
    IF LoadRaises(status)
    THEN [min |-> SpinDefaultMin, max |-> SpinDefaultMax, value |-> SpinDefaultValue,
          label |-> LabelDefault, printed |-> <<"Error loading PDF">>, calls |-> <<>>]
    ELSE LET range == RangeAfterLoad(total_pages)
             v1    == BoundedIn(range, SpinDefaultValue)
             v2    == BoundedIn(range, 1)
         IN  [min |-> range[1], max |-> range[2], value |-> v2,
              label |-> total_pages, printed |-> <<>>,
              calls |-> (IF v1 # SpinDefaultValue THEN <<v1>> ELSE <<>>)
                            \o (IF v2 # v1 THEN <<v2>> ELSE <<>>)]

\* The jumps of a sequence of _goto_page calls.
RECURSIVE JumpsOf(_)
JumpsOf(calls) == IF calls = <<>> THEN <<>> ELSE goto_page(Head(calls)) \o JumpsOf(Tail(calls))

\* The search toolbars __init__ leaves: the first (lines 127-129) is in the
\* layout, has no search model and was reparented to pdf_container; the
\* second (lines 207-208) has the model and the dialog as parent and is in no
\* layout. setup_ui connects the signals of both.
ToolbarsAfterInit ==
    [t \in Toolbars |->
        [model |-> (t = 2), index |-> -1, parentGoto |-> (t = 2),
         inLayout |-> (t = 1), wired |-> TRUE]]

\* The QPdfSearchModel of line 179 is replaced by the one of line 203, which
\* set_search_model binds to the second toolbar.
SearchModelsAfterInit == <<"replaced", "bound">>

\* The state __init__ leaves for a document of one of the page counts.
InitFor(counts) ==
    \E o \in LoadOutcomes(counts) :
        LET l == load_pdf(o.status, o.pages)
        IN  /\ docStatus = o.status
            /\ reported = l.printed
            /\ searchModels = SearchModelsAfterInit
            /\ pageCount = o.pages
            /\ spinMin = l.min
            /\ spinMax = l.max
            /\ spinValue = l.value
            /\ totalLabel = l.label
            /\ navPage = IF JumpsOf(l.calls) = <<>> THEN 0 ELSE Last(JumpsOf(l.calls))
            /\ zoomFactor = Rat(1, 1)
            /\ zoomMode = "FitToWidth"
            /\ tb = ToolbarsAfterInit
            /\ searchText = ""
            /\ rows = <<>>
            /\ lastOp = NoOp("load")
            /\ asked = l.calls
            /\ jumped = JumpsOf(l.calls)
            /\ searched = <<>>
            /\ zoomed = <<>>
            /\ err = "none"
            /\ nextRun = RunAfterSet(l.value)

Init == InitFor(PageCounts)

Next ==
    \/ \E v \in 1..MaxPages : SpinEdit(v)
    \/ PreviousClicked
    \/ NextClicked
    \/ \E page \in TocPages : TocClicked(page)
    \/ \E zoom_text \in ZoomTexts : ZoomChanged(zoom_text)
    \/ \E t \in Toolbars, text \in Queries : SearchTextChanged(t, text)
    \/ \E t \in Toolbars : SearchForward(t)
    \/ \E t \in Toolbars : SearchBackward(t)
    \/ EngineDeliver

Spec == Init /\ [][Next]_vars

-----------------------------------------------------------------------------
(* The paging scenario: a 10-page document (and the smallest ones), every  *)
(* handler, two zoom texts.                                                 *)

ScenarioPages == MaxPages + 4

PagingCounts == {0, 1, ScenarioPages}

PagingZoomTexts == { <<"1", "5", "0", "%">>, <<"a", "b", "c", "%">> }

PagingInit == InitFor(PagingCounts)

PagingNext ==
    \/ \E v \in 1..ScenarioPages : SpinEdit(v)
    \/ PreviousClicked
    \/ NextClicked
    \/ \E page \in TocPages : TocClicked(page)
    \/ \E zoom_text \in PagingZoomTexts : ZoomChanged(zoom_text)
    \/ \E t \in Toolbars, text \in Queries : SearchTextChanged(t, text)
    \/ \E t \in Toolbars : SearchForward(t)
    \/ \E t \in Toolbars : SearchBackward(t)
    \/ EngineDeliver

SpecPaging == PagingInit /\ [][PagingNext]_vars

-----------------------------------------------------------------------------
(* Properties *)

\* Some page number the last handler passed to _goto_page lies outside
\* [1, pageCount].
AskedOutOfRange == \E i \in 1..Len(asked) : asked[i] < 1 \/ asked[i] > pageCount

\* C1: for every page number p outside [1, totalPages], _goto_page(p) issues
\* no jump request to the engine and leaves the current page (the engine's
\* and the displayed one) unchanged, whoever the caller is.
C1_GotoOutOfRangeIsNoOp ==
    /\ [](AskedOutOfRange => jumped = <<>>)
    /\ [][AskedOutOfRange' => (navPage' = navPage /\ spinValue' = spinValue)]_vars

\* An outline click asked for the page after the last one while the viewport
\* was on the third page: nothing moved.
C1_Witness ==
    /\ lastOp.op = "toc" /\ pageCount >= 3
    /\ asked = <<pageCount + 1>>
    /\ jumped = <<>> /\ navPage = 2

\* The handler left everything but the record of the last handler unchanged.
StateKept == UNCHANGED <<docVars, spinValue, navPage, searchVars, zoomVars>>

\* C2: previous() at currentPage = 1 and next() at currentPage = totalPages
\* leave the state unchanged (no wraparound); otherwise they move currentPage
\* by exactly one and the engine jumps there. k consecutive next() calls from
\* page 1 of an n-page document reach page min(1 + k, n): nine reach page 10
\* of a 10-page document and further ones stay there.
C2_PreviousNextStepOrStay ==
    /\ [][/\ (lastOp'.op = "previous" /\ spinValue = 1) => (StateKept /\ jumped' = <<>>)
          /\ (lastOp'.op = "next" /\ spinValue = pageCount) => (StateKept /\ jumped' = <<>>)
          /\ (lastOp'.op = "previous" /\ spinValue > 1)
                => (spinValue' = spinValue - 1 /\ navPage' = spinValue - 2)
          /\ (lastOp'.op = "next" /\ spinValue < pageCount)
                => (spinValue' = spinValue + 1 /\ navPage' = spinValue)]_vars
    /\ [](nextRun >= 0 => spinValue = Min(1 + nextRun, Max(1, pageCount)))

\* Ten next() calls from page 1 of the 10-page document: the tenth left the
\* display on page 10.
C2_Witness ==
    /\ pageCount = ScenarioPages /\ lastOp.op = "next"
    /\ nextRun = ScenarioPages
    /\ spinValue = ScenarioPages /\ navPage = ScenarioPages - 1

\* C3: the page shown by page_spinbox is the external number of the page the
\* engine was last asked to jump to.
C3_DisplayShowsLastJump == pageCount >= 1 => spinValue = navPage + 1

\* The toolbar whose search_model is bound sees the model's rows; the other
\* one has no result set.
ResultCount(t) == IF tb[t].model THEN RowCount(rows) ELSE 0

\* Every row delivered so far lies on the page of the first one: the rows of
\* the first page with hits.
FirstDelivery == rows # <<>> /\ \A i \in 1..Len(rows) : rows[i] = rows[1]

\* C4: when a non-empty query yields results, the cursor is set to 0 and
\* goto(results[0].page + 1) is invoked, whether the results arrive inside
\* setQuery or are delivered afterwards; with no results advance() and
\* retreat() are no-ops.
C4_QueryJumpsToFirstResult ==
    /\ (lastOp.op = "query" /\ tb[lastOp.tb].model /\ rows # <<>>)
          => (tb[lastOp.tb].index = 0 /\ asked = <<rows[1] + 1>>)
    /\ (lastOp.op = "deliver" /\ FirstDelivery)
          => (asked = <<rows[1] + 1>> /\ \A t \in Toolbars : tb[t].model => tb[t].index = 0)
    /\ (lastOp.op \in {"forward", "backward"} /\ ResultCount(lastOp.tb) = 0)
          => (asked = <<>> /\ tb[lastOp.tb].index = -1)

RECURSIVE ForwardTimes(_, _, _)
ForwardTimes(k, index, count) ==
    IF k = 0 THEN index ELSE ForwardTimes(k - 1, search_forward(index, count), count)

RECURSIVE BackwardTimes(_, _, _)
BackwardTimes(k, index, count) ==
    IF k = 0 THEN index ELSE BackwardTimes(k - 1, search_backward(index, count), count)

\* C5: with a non-empty result set of size n, n calls of advance() return the
\* cursor to where it was, so do n calls of retreat(), and so does advance()
\* followed by retreat(), from every cursor state reachable with that result set.
C5_CursorIsCyclic ==
    \A t \in Toolbars :
        ResultCount(t) > 0 =>
            LET n == ResultCount(t)
                c == tb[t].index
            IN  /\ ForwardTimes(n, c, n) = c
                /\ BackwardTimes(n, c, n) = c
                /\ search_backward(search_forward(c, n), n) = c

\* C6: the cursor is empty exactly when there are no results and is
\* otherwise a valid index into them.
C6_CursorEmptyIffNoResults ==
    \A t \in Toolbars :
        /\ tb[t].index = -1 <=> ResultCount(t) = 0
        /\ tb[t].index >= -1 /\ tb[t].index < Max(ResultCount(t), 0)

IsPrefix(s, full) == Len(s) <= Len(full) /\ s = SubSeq(full, 1, Len(s))

HitPageSet(q) == {Hits(q)[i] : i \in 1..Len(Hits(q))}

C8_OutlineSelectsPagePlusOne ==
    /\ [](lastOp.op = "toc" =>
            IF lastOp.arg = {} THEN asked = <<>> /\ jumped = <<>>
            ELSE \A t \in lastOp.arg :
                    /\ asked = <<t + 1>>
                    /\ (1 <= t + 1 /\ t + 1 <= pageCount) => (jumped = <<t>> /\ navPage = t))
    /\ [][(lastOp'.op = "toc" /\ lastOp'.arg = {}) => StateKept]_vars

\* The node with targetPage = 4 was clicked and the engine is on external page 5.
C8_Witness ==
    /\ lastOp.op = "toc" /\ lastOp.arg = {4}
    /\ asked = <<5>> /\ jumped = <<4>> /\ navPage = 4

\* Texts whose remainder after the trailing "%" is the number 150.
Texts150 == { <<"1", "5", "0", "%">>, <<" ", "+", "1", "5", "0", ".", "0", " ", "%">> }

\* Texts whose remainder after the trailing "%" is no number.
TextsNotANumber ==
    { <<"a", "b", "c", "%">>, <<"1", ".", "5", ".", "0", "%">>, <<>>,
      <<"1", "5", "0", "%", " ">> }

\* C9: a zoom text whose numeric part is the positive number v applies the
\* factor v / 100 ("150%" gives 1.5, "100%" gives 1); a text whose remainder
\* is not a number ends in an error, with the zoom factor as it was and no
\* call of setZoomFactor.
C9_ZoomPercentOrError ==
    [][lastOp'.op = "zoom" =>
        /\ lastOp'.zin \in Texts150
              => /\ zoomFactor' = [num |-> 3, den |-> 2]
                 /\ zoomed' = <<[num |-> 3, den |-> 2]>>
                 /\ err' = "none"
        /\ lastOp'.zin = <<"1", "0", "0", "%">>
              => /\ zoomFactor' = [num |-> 1, den |-> 1]
                 /\ zoomed' = <<[num |-> 1, den |-> 1]>>
                 /\ err' = "none"
        /\ lastOp'.zin \in TextsNotANumber
              => /\ err' = "ValueError"
                 /\ zoomed' = <<>>
                 /\ UNCHANGED zoomVars]_vars

\* "abc%" was rejected while the factor 1.5 of an earlier "150%" was in place.
C9_Witness ==
    /\ lastOp.op = "zoom" /\ lastOp.zin = <<"a", "b", "c", "%">>
    /\ err = "ValueError" /\ zoomed = <<>>
    /\ zoomFactor = [num |-> 3, den |-> 2]

\* C10: the zoom factor applied to the view is strictly positive in every
\* reachable state.
C10_ZoomFactorPositive == zoomFactor.num > 0 /\ zoomFactor.den > 0

\* C11: when the engine reports a load failure, the failure is reported, and
\* the page range, the current page, the page-count label and the zoom are
\* left as they were before the load; the viewer stays an empty document in
\* which no operation issues a jump.
C11_LoadFailureReportedStateKept ==
    docStatus = "Error" =>
        /\ reported # <<>>
        /\ pageCount = 0 /\ jumped = <<>>
        /\ lastOp.op = "load" =>
              /\ spinMin = SpinDefaultMin /\ spinMax = SpinDefaultMax
              /\ spinValue = SpinDefaultValue /\ totalLabel = LabelDefault
              /\ zoomFactor = Rat(1, 1) /\ zoomMode = "FitToWidth"

\* C12: with a document of n > 0 pages the current page starts at 1 and is
\* always within 1..n, in the spinbox and in the engine; with n = 0 the
\* spinbox value is no page of the document and every operation leaves the
\* page where it is and issues no jump.
C12_PageIndexInvariant ==
    /\ [](/\ pageCount > 0 =>
                /\ spinMin = 1 /\ spinMax = pageCount
                /\ 1 <= spinValue /\ spinValue <= pageCount
                /\ 0 <= navPage /\ navPage <= pageCount - 1
                /\ lastOp.op = "load" => (spinValue = 1 /\ navPage = 0)
          /\ pageCount = 0 =>
                /\ spinValue \notin 1..pageCount
                /\ jumped = <<>> /\ navPage = 0)
    /\ [][pageCount = 0 => (jumped' = <<>> /\ UNCHANGED <<spinValue, navPage>>)]_vars

\* "Next" was clicked on the last page of a 3-page document: the page stays 3.
C12_Witness ==
    /\ lastOp.op = "next" /\ pageCount = 3
    /\ spinValue = 3 /\ navPage = 2 /\ asked = <<>>

\* C13 as stated: setQuery with the empty string leaves no results and an
\* empty cursor, makes no call of the engine's search and issues no jump.
C13_EmptyQueryNoEngineCall ==
    (lastOp.op = "query" /\ lastOp.q = "") =>
        /\ ResultCount(lastOp.tb) = 0 /\ tb[lastOp.tb].index = -1
        /\ searched = <<>>
        /\ asked = <<>> /\ jumped = <<>>

\* C13: setQuery with the empty string on the toolbar that has the search
\* model passes the empty text to the model's setSearchText, which leaves no
\* results; the cursor becomes empty. On a toolbar without search model it
\* makes no engine call and changes nothing. Either way no _goto_page is
\* called and the page stays where it is.
C13_EmptyQueryClears ==
    [][(lastOp'.op = "query" /\ lastOp'.q = "") =>
        /\ asked' = <<>> /\ jumped' = <<>> /\ UNCHANGED <<spinValue, navPage>>
        /\ IF tb[lastOp'.tb].model
           THEN /\ searched' = <<"">> /\ searchText' = "" /\ rows' = <<>>
                /\ tb'[lastOp'.tb].index = -1
           ELSE searched' = <<>> /\ UNCHANGED searchVars]_vars

\* The query "a" was cleared while its search was still delivering rows.
C13_Witness ==
    /\ lastOp.op = "query" /\ lastOp.q = "" /\ lastOp.tb = 2 /\ lastOp.sup
    /\ searched = <<"">> /\ rows = <<>> /\ tb[2].index = -1

\* setQuery, advance() and retreat() on a toolbar whose search engine is
\* unavailable: no search model is bound, or the document has no pages.
EngineUnavailable(op) ==
    /\ op.op \in {"query", "forward", "backward"}
    /\ ~tb[op.tb].model \/ pageCount = 0

\* C14 as stated: with the search engine unavailable, setQuery, advance()
\* and retreat() leave the cursor empty and the page alone, make no engine
\* call and raise no error.
C14_UnavailableNoEngineCall ==
    EngineUnavailable(lastOp) =>
        /\ tb[lastOp.tb].index = -1
        /\ asked = <<>> /\ jumped = <<>>
        /\ searched = <<>>
        /\ err = "none"

\* C14: with the search engine unavailable, setQuery, advance() and
\* retreat() change neither cursor nor page, issue no jump and raise no
\* error; the only engine call made is setSearchText with the text of a
\* setQuery on the toolbar that has the search model, which finds no rows.
C14_UnavailableIsNoOp ==
    [][EngineUnavailable(lastOp') =>
        /\ tb' = tb /\ UNCHANGED <<spinValue, navPage>>
        /\ asked' = <<>> /\ jumped' = <<>>
        /\ err' = "none"
        /\ searched' = IF lastOp'.op = "query" /\ tb[lastOp'.tb].model
                       THEN <<lastOp'.q>> ELSE <<>>
        /\ tb[lastOp'.tb].model => rows' = <<>>
        /\ ~tb[lastOp'.tb].model => UNCHANGED searchVars]_vars

\* "a" was typed into the toolbar with the search model on a document
\* without pages: the text went to the model, the cursor is still empty.
C14_Witness ==
    /\ lastOp.op = "query" /\ lastOp.tb = 2 /\ lastOp.q = "a" /\ pageCount = 0
    /\ searched = <<"a">> /\ rows = <<>> /\ tb[2].index = -1 /\ jumped = <<>>

\* The text asking for fit-to-width.
FitToWidthText == <<"F", "i", "t", " ", "W", "i", "d", "t", "h">>

\* C15: setZoom with the fit-to-width token ends without error with
\* fit-to-width as the view's zoom mode; once a later setZoom with a valid
\* percentage has run, the zoom mode is the fixed factor, not fit-to-width.
C15_FitToWidthThenPercent ==
    lastOp.op = "zoom" =>
        /\ lastOp.zin = FitToWidthText => (err = "none" /\ zoomMode = "FitToWidth")
        /\ lastOp.zin \in Texts150 \cup {<<"1", "0", "0", "%">>}
              => (err = "none" /\ zoomMode = "Custom")

\* C16: construction creates and wires exactly one SearchToolBar and exactly
\* one search model, the one bound to it; no search model is replaced.
C16_SingleSearchInstance ==
    /\ Cardinality({t \in DOMAIN tb : tb[t].wired}) = 1
    /\ Len(searchModels) = 1
    /\ \A i \in 1..Len(searchModels) : searchModels[i] = "bound"

\* C17: every SearchToolBar in the layout has a search model, and a
\* non-empty text typed into it is passed to setSearchText.
C17_ToolbarInLayoutSearches ==
    /\ \A t \in DOMAIN tb : tb[t].inLayout => tb[t].model
    /\ (lastOp.op = "query" /\ tb[lastOp.tb].inLayout /\ lastOp.q # "")
          => searched = <<lastOp.q>>

\* The external pages among the requests that are pages of the document.
AskedInRange == SelectSeq(asked, LAMBDA p : 1 <= p /\ p <= pageCount)

\* C18: every index passed to the engine's jump lies in 0..pageCount - 1 and
\* is the requested external page minus 1, whether the request came from
\* the spinbox, the buttons, a search result or an outline entry.
C18_JumpIndexIsPageMinusOne ==
    /\ \A i \in 1..Len(jumped) : 0 <= jumped[i] /\ jumped[i] <= pageCount - 1
    /\ Len(jumped) = Len(AskedInRange)
    /\ \A i \in 1..Len(jumped) : jumped[i] = AskedInRange[i] - 1
    /\ jumped # <<>> => navPage = Last(jumped)

\* A click on next_result moved to the hit on the last page of a 6-page
\* document: external page 6, engine index 5.
C18_Witness ==
    /\ lastOp.op = "forward" /\ asked = <<6>> /\ jumped = <<5>> /\ navPage = 5

\* C19: a zoom change, successful or failing, leaves the spinbox page, the
\* engine's page, the document, the search text, the rows and the cursors
\* as they were and issues no jump and no search; every other operation
\* leaves the zoom factor and the zoom mode as they were.
C19_ZoomAndPageIndependent ==
    [][/\ lastOp'.op = "zoom" =>
            /\ UNCHANGED <<docVars, spinValue, navPage, searchVars>>
            /\ asked' = <<>> /\ jumped' = <<>> /\ searched' = <<>>
       /\ lastOp'.op # "zoom" =>
            /\ UNCHANGED zoomVars
            /\ zoomed' = <<>>]_vars

\* "150%" was chosen while the engine was on the second hit's page (index 2)
\* with the cursor on that hit: page, rows and cursor are as they were.
C19_Witness ==
    /\ lastOp.op = "zoom" /\ zoomFactor = [num |-> 3, den |-> 2]
    /\ navPage = 2 /\ rows = <<0, 2, 5>> /\ tb[2].index = 1

\* C20: with the cursor empty (-1) and n >= 1 rows in the bound search
\* model, a click on next_result moves the cursor to index 0 and a click on
\* prev_result moves it to index n - 1, and each asks for the page of that
\* row plus 1.
C20_FirstStepFromEmptyCursor ==
    [][(/\ lastOp'.op \in {"forward", "backward"}
        /\ tb[lastOp'.tb].model
        /\ tb[lastOp'.tb].index = -1
        /\ RowCount(rows) >= 1)
        => LET target == IF lastOp'.op = "forward" THEN 0 ELSE RowCount(rows) - 1
           IN  /\ tb'[lastOp'.tb].index = target
               /\ asked' = <<ResultPage(rows, target) + 1>>]_vars

====
